---- MODULE Spec2Model ----
(***************************************************************************)
(* Model of content.js (YouTube original-audio extension):                 *)
(*   - findAndClickMenuItem: keyword matching over menu items with         *)
(*     bounded retry,                                                      *)
(*   - processVideo: the precondition checks and the click sequence,       *)
(*   - run / the MutationObserver callback / the delayed one-shot check /  *)
(*     the yt-navigate-finish listener: the page lifecycle.                *)
(* Strings are modelled as sequences of one-character strings so that      *)
(* toLowerCase, trim and includes are computed, not assumed.               *)
(***************************************************************************)
EXTENDS Integers, Sequences, FiniteSets, TLC

VARIABLES
    pathname,        \* window.location.pathname
    settingsButton,  \* element id of button.ytp-settings-button in the DOM, 0 = none
    nButtons,        \* number of settings-button elements the page has created
    processed,       \* elements whose dataset.ytOriginalAudioProcessed is 'true'
    adClasses,       \* ad classes currently on #movie_player
    pageObserver,    \* the module-level handle, 0 = null
    connected,       \* MutationObservers currently observing
    nObservers,      \* number of MutationObservers constructed so far
    runTimers,       \* pending setTimeout(run, 1800)
    checkTimers,     \* pending setTimeout(..., 2800), named by the observer of their run()
    calls,           \* processVideo invocations that reached the click sequence
    nClicks,         \* clicks issued so far (simulateClick on any element)
    lastCall,        \* observation of the most recent processVideo call
    passedSinceNav,  \* buttons on which a call passed the preconditions since the last navigation event
    passedSinceClear,\* same, also reset for a button when an ad-state call clears its marker
    fm               \* one stand-alone findAndClickMenuItem invocation (MatcherSpec)

vars == <<pathname, settingsButton, nButtons, processed, adClasses, pageObserver,
          connected, nObservers, runTimers, checkTimers, calls, nClicks, lastCall,
          passedSinceNav, passedSinceClear, fm>>

lifecycleVars == <<pathname, settingsButton, nButtons, processed, adClasses, pageObserver,
          connected, nObservers, runTimers, checkTimers, calls, nClicks, lastCall,
          passedSinceNav, passedSinceClear>>

----------------------------------------------------------------------------
(* Bounds of the model *)

MaxBtn == 1
MaxObs == 3
MaxSeq == 2
MaxTimers == 1

----------------------------------------------------------------------------
(* Strings *)

UpperAlpha == <<"A","B","C","D","E","F","G","H","I","J","K","L","M",
                "N","O","P","Q","R","S","T","U","V","W","X","Y","Z">>
LowerAlpha == <<"a","b","c","d","e","f","g","h","i","j","k","l","m",
                "n","o","p","q","r","s","t","u","v","w","x","y","z">>

LowerChar(c) ==
    IF \E i \in DOMAIN UpperAlpha : UpperAlpha[i] = c
    THEN LowerAlpha[CHOOSE i \in DOMAIN UpperAlpha : UpperAlpha[i] = c]
    ELSE c

\* String.prototype.toLowerCase
toLowerCase(s) == [i \in DOMAIN s |-> LowerChar(s[i])]

\* String.prototype.trim
trim(s) ==
    LET nonWs == {i \in DOMAIN s : s[i] # " "}
    IN  IF nonWs = {} THEN <<>>
        ELSE LET lo == CHOOSE i \in nonWs : \A j \in nonWs : i <= j
                 hi == CHOOSE i \in nonWs : \A j \in nonWs : i >= j
             IN  SubSeq(s, lo, hi)

\* String.prototype.includes
includes(s, k) ==
    \E i \in 0..(Len(s) - Len(k)) : SubSeq(s, i + 1, i + Len(k)) = k

\* Array.prototype.includes on an array of keywords
arrayIncludes(keywords, k) == \E i \in DOMAIN keywords : keywords[i] = k

----------------------------------------------------------------------------
(* Menu items, labels and keyword sets used as inputs *)

kwAudioTrack == <<"a","u","d","i","o"," ","t","r","a","c","k">>
kwAudio      == <<"a","u","d","i","o">>
kwParenOriginal == <<"(","o","r","i","g","i","n","a","l",")">>
kwOriginal   == <<"o","r","i","g","i","n","a","l">>
kwEnglishCap == <<"E","n","g","l","i","s","h">>

\* processVideo's two keyword-set lists
audioTrackMenuItemKeywords == << <<kwAudioTrack>>, <<kwAudio>> >>
originalAudioKeywords == << <<kwParenOriginal>>, <<kwOriginal>> >>
\* further inputs: a two-keyword set with an upper-case keyword, and a single set
englishOriginalKeywords == << <<kwEnglishCap, kwOriginal>>, <<kwAudioTrack>> >>
audioOnlyKeywords == << <<kwAudio>> >>

KeywordSetInputs == {audioTrackMenuItemKeywords, originalAudioKeywords,
                     englishOriginalKeywords, audioOnlyKeywords}

lblQuality    == <<"Q","u","a","l","i","t","y">>
lblAudioTrack == <<"A","u","d","i","o"," ","t","r","a","c","k">>
lblSpeed      == <<"S","p","e","e","d">>
lblStableAudio == <<"S","t","a","b","l","e"," ","a","u","d","i","o">>
lblPaddedUpper == <<" ","A","U","D","I","O"," ","T","R","A","C","K"," ">>
lblEnglishOriginal == <<"E","n","g","l","i","s","h"," ","(","O","r","i","g","i","n","a","l",")">>
lblOriginalPlain == <<"O","r","i","g","i","n","a","l"," ","m","i","x">>
lblSpanish    == <<"S","p","a","n","i","s","h">>

\* a .ytp-menuitem: whether it has a .ytp-menuitem-label child, that child's
\* textContent, and the item's aria-checked attribute ("none" = absent)
Item(l, c) == [hasLabel |-> TRUE, label |-> l, checked |-> c]
NoLabelItem == [hasLabel |-> FALSE, label |-> <<>>, checked |-> "none"]

MenuInputs == {
    <<>>,
    <<Item(lblQuality, "none"), Item(lblAudioTrack, "none"), Item(lblSpeed, "none")>>,
    <<Item(lblStableAudio, "none"), Item(lblAudioTrack, "none")>>,
    <<Item(lblPaddedUpper, "false")>>,
    <<NoLabelItem, Item(lblQuality, "none")>>,
    <<Item(lblSpanish, "false"), Item(lblEnglishOriginal, "true")>>,
    <<Item(lblEnglishOriginal, "false"), Item(lblSpanish, "true")>>,
    <<Item(lblOriginalPlain, "true"), Item(lblEnglishOriginal, "false")>>,
    <<Item(lblAudioTrack, "true"), Item(lblEnglishOriginal, "none")>> }

\* what document.querySelectorAll(panelSelector) may return while processVideo runs
PanelInputs == {
    <<>>,
    <<Item(lblQuality, "none"), Item(lblAudioTrack, "none"), Item(lblSpeed, "none")>>,
    <<NoLabelItem, Item(lblQuality, "none")>>,
    <<Item(lblSpanish, "false"), Item(lblEnglishOriginal, "true")>>,
    <<Item(lblEnglishOriginal, "false"), Item(lblSpanish, "true")>> }

----------------------------------------------------------------------------
(* findAndClickMenuItem, lines 36-88 *)

\* (variant of labelText that forgets toLowerCase)
labelTextCaseSensitive(item) == trim(item.label)

\* line 52: labelElement.textContent.toLowerCase().trim()
labelText(item) == trim(toLowerCase(item.label))

\* line 54: keywords.every(keyword => labelText.includes(keyword.toLowerCase()))
keywordsMatch(keywords, text) ==
    \A i \in DOMAIN keywords : includes(text, toLowerCase(keywords[i]))

\* (variant of isOriginalMarker that knows only '(original)')
isOriginalMarkerParenOnly(keywords) == arrayIncludes(keywords, kwParenOriginal)

\* line 56: keywords.includes('(original)') || keywords.includes('original')
isOriginalMarker(keywords) ==
    arrayIncludes(keywords, kwParenOriginal) \/ arrayIncludes(keywords, kwOriginal)

\* line 73: keywordSets.flat().includes('(original)') || keywordSets.flat().includes('original')
flatIncludesOriginal(keywordSets) ==
    \E k \in DOMAIN keywordSets : isOriginalMarker(keywordSets[k])

\* lines 53-54: the first keyword set, in list order, that the item's label matches (0 = none)
firstMatchingSet(keywordSets, item) ==
    LET hits == {k \in DOMAIN keywordSets : keywordsMatch(keywordSets[k], labelText(item))}
    IN  IF ~item.hasLabel \/ hits = {} THEN 0
        ELSE CHOOSE k \in hits : \A j \in hits : k <= j

\* lines 49-67: the first item, in document order, that matches some set (0 = none)
firstMatchingItem(keywordSets, menuItems) ==
    LET hits == {i \in DOMAIN menuItems : firstMatchingSet(keywordSets, menuItems[i]) # 0}
    IN  IF hits = {} THEN 0
        ELSE CHOOSE i \in hits : \A j \in hits : i <= j

\* (variant of canRetry with the ceiling off by one)
canRetryOnceMore(attempt) == attempt < 5

\* lines 43 and 83: attempt < 4 (line 73 tests its negation, attempt >= 4)
canRetry(attempt) == attempt < 4

\* (variant of pollDelay without the backoff)
pollDelayFixed(attempt) == 350

\* line 40: setTimeout(resolve, 350 + attempt * 250)
pollDelay(attempt) == 350 + attempt * 250

\* line 56: item.getAttribute('aria-checked') === 'true'
isChecked(item) == item.checked = "true"

\* (variant of simulateClick called before the aria-checked test of line 56)
simulateClickBeforeCheckedTest(kind) ==
    IF kind \in {"clicked", "already_selected"} THEN 1 ELSE 0

\* lines 20-26 as called at line 60: the clicks one poll issues, by how the
\* poll ends. Line 60 is reached only past the return of line 58, and the item
\* it clicks is the one returned at line 70.
simulateClick(kind) == IF kind = "clicked" THEN 1 ELSE 0

\* One poll of findAndClickMenuItem at the given attempt, on the menu items the
\* query returned: what the invocation does next.
\*   kind: "retry" (recursive call with attempt + 1), "clicked" (simulateClick on
\*   item, the item is returned), "already_selected", "null"
\*   item, set: the matched item and keyword set (0 = none)
\*   dump: whether the available labels are logged (lines 73-82)
PollOutcome(keywordSets, menuItems, attempt) ==
    IF Len(menuItems) = 0 /\ canRetry(attempt)
    THEN [kind |-> "retry", item |-> 0, set |-> 0, dump |-> FALSE]
    ELSE LET i == firstMatchingItem(keywordSets, menuItems)
         IN  IF i # 0
             THEN LET k == firstMatchingSet(keywordSets, menuItems[i])
                  IN  IF isOriginalMarker(keywordSets[k]) /\ isChecked(menuItems[i])
                      THEN [kind |-> "already_selected", item |-> i, set |-> k, dump |-> FALSE]
                      ELSE [kind |-> "clicked", item |-> i, set |-> k, dump |-> FALSE]
             ELSE IF ~canRetry(attempt) /\ flatIncludesOriginal(keywordSets)
                  THEN [kind |-> "null", item |-> 0, set |-> 0, dump |-> TRUE]
                  ELSE IF canRetry(attempt)
                       THEN [kind |-> "retry", item |-> 0, set |-> 0, dump |-> FALSE]
                       ELSE [kind |-> "null", item |-> 0, set |-> 0, dump |-> FALSE]

\* A stand-alone invocation findAndClickMenuItem(keywordSets, selector):
\* pc "waiting" = suspended in the delay before a poll, "returned" = promise settled.
FmStart(ks) ==
    [pc |-> "waiting", keywordSets |-> ks, attempt |-> 0, polls |-> 0,
     menuItems |-> <<>>, kind |-> "none", item |-> 0, set |-> 0,
     clicks |-> 0, waited |-> 0, dump |-> FALSE]

\* no stand-alone invocation (the lifecycle specification)
FmUnused == [pc |-> "unused"]

\* The timer of line 40 fires: lines 42-87 run on whatever the menu holds now.
FmPoll ==
    /\ fm.pc = "waiting"
    /\ \E menuItems \in MenuInputs :
         LET o == PollOutcome(fm.keywordSets, menuItems, fm.attempt)
         IN  fm' = [fm EXCEPT
                      !.pc = IF o.kind = "retry" THEN "waiting" ELSE "returned",
                      !.attempt = IF o.kind = "retry" THEN @ + 1 ELSE @,
                      !.polls = @ + 1,
                      !.menuItems = menuItems,
                      !.kind = o.kind,
                      !.item = o.item,
                      !.set = o.set,
                      !.clicks = @ + simulateClick(o.kind),
                      !.waited = pollDelay(fm.attempt),
                      !.dump = o.dump]
    /\ UNCHANGED lifecycleVars

\* lines 36-88 as processVideo sees them: the results an awaited invocation
\* started at this attempt can settle with, the panel's items being whatever
\* the page shows at each poll. The polls before the last touch nothing but
\* the attempt number (lines 45 and 85 recurse), so the invocation is one
\* suspension of processVideo.
RECURSIVE findAndClickMenuItem(_, _)
findAndClickMenuItem(keywordSets, attempt) ==
    LET kinds == {PollOutcome(keywordSets, menuItems, attempt).kind : menuItems \in PanelInputs}
    IN  (kinds \ {"retry"}) \cup
        (IF "retry" \in kinds THEN findAndClickMenuItem(keywordSets, attempt + 1) ELSE {})

\* line 127 and line 137: the two invocations processVideo awaits
audioTrackMenuItem == findAndClickMenuItem(audioTrackMenuItemKeywords, 0)
originalAudioResult == findAndClickMenuItem(originalAudioKeywords, 0)

----------------------------------------------------------------------------
(* processVideo, lines 95-151 *)

AdClassNames == {"ad-showing", "ad-interrupting"}

\* (variant of AdState that tests 'ad-showing' only)
AdStateShowingOnly == "ad-showing" \in adClasses

\* line 106: classList.contains('ad-showing') || classList.contains('ad-interrupting')
AdState == adClasses \cap AdClassNames # {}

\* (variant of alreadyProcessed that never sees the flag)
alreadyProcessedNever(b) == FALSE

\* line 116: settingsButton.dataset.ytOriginalAudioProcessed === 'true'
alreadyProcessed(b) == b \in processed

\* (variant of flagProcessed that leaves the flag unset)
flagProcessedForgotten(b) == processed

\* line 121: settingsButton.dataset.ytOriginalAudioProcessed = 'true'
flagProcessed(b) == processed \cup {b}

\* (variant of clearProcessed that leaves the marker on the control)
clearProcessedKept(b) == processed

\* line 110: delete settingsButton.dataset.ytOriginalAudioProcessed
clearProcessed(b) == processed \ {b}

\* (variant of closeClick that leaves the menu open)
closeClickSkipped(trace) == trace

\* lines 131 and 148: simulateClick(settingsButton) closing the menu
closeClick(trace) == Append(trace, "S")

\* lines 177-184: the observer callback's .then; lines 205-212: the delayed check's
\* .then, which only logs. origin = the observer whose callback made the call,
\* 0 = the delayed check.
connectedAfterThen(origin, isProcessingComplete) ==
    IF origin # 0 /\ isProcessingComplete THEN connected \ {origin} ELSE connected

pageObserverAfterThen(origin, isProcessingComplete) ==
    IF origin # 0 /\ isProcessingComplete THEN 0 ELSE pageObserver

NoCall == [ad |-> FALSE, markedBefore |-> FALSE, markedAfter |-> FALSE, clicks |-> 0,
           result |-> "none", priorPassNav |-> FALSE, priorPassClear |-> FALSE]

\* What a call of processVideo did, read off the state before and after it:
\* whether the player carried an ad class, the button's flag before and after,
\* the clicks issued before the call returned or suspended, its result so far,
\* and whether a call had passed the checks on this button before.
Observe(b, result) ==
    [ad |-> ("ad-showing" \in adClasses \/ "ad-interrupting" \in adClasses),
     markedBefore |-> b \in processed, markedAfter |-> b \in processed',
     clicks |-> nClicks' - nClicks, result |-> result,
     priorPassNav |-> b \in passedSinceNav, priorPassClear |-> b \in passedSinceClear]

\* A call of processVideo up to its first suspension point (or its return), with
\* the caller's .then when the promise settles without suspending.
\* gen names the run() whose observer or delayed check made the call.
processVideo(origin, gen) ==
    LET b == settingsButton IN
    IF b = 0
    THEN \* lines 99-102
         /\ UNCHANGED <<processed, nClicks, calls, connected, pageObserver,
                        passedSinceNav, passedSinceClear>>
         /\ lastCall' = Observe(b, "defer")
    ELSE IF AdState
    THEN \* lines 106-114
         /\ processed' = IF alreadyProcessed(b) THEN clearProcessed(b) ELSE processed
         /\ passedSinceClear' = IF alreadyProcessed(b) THEN passedSinceClear \ {b}
                                ELSE passedSinceClear
         /\ connected' = connectedAfterThen(origin, FALSE)
         /\ pageObserver' = pageObserverAfterThen(origin, FALSE)
         /\ UNCHANGED <<nClicks, calls, passedSinceNav>>
         /\ lastCall' = Observe(b, "defer")
    ELSE IF alreadyProcessed(b)
    THEN \* lines 116-119
         /\ connected' = connectedAfterThen(origin, TRUE)
         /\ pageObserver' = pageObserverAfterThen(origin, TRUE)
         /\ UNCHANGED <<processed, nClicks, calls, passedSinceNav, passedSinceClear>>
         /\ lastCall' = Observe(b, "complete")
    ELSE \* lines 121-127: flag, open the settings menu, suspend in findAndClickMenuItem
         /\ Len(calls) < MaxSeq
         /\ processed' = flagProcessed(b)
         /\ nClicks' = nClicks + 1
         /\ calls' = Append(calls, [origin |-> origin, gen |-> gen, btn |-> b,
                                    pc |-> "find1", trace |-> <<"S">>,
                                    result |-> "pending"])
         /\ passedSinceNav' = passedSinceNav \cup {b}
         /\ passedSinceClear' = passedSinceClear \cup {b}
         /\ UNCHANGED <<connected, pageObserver>>
         /\ lastCall' = Observe(b, "pending")

pageVars == <<pathname, settingsButton, nButtons, adClasses>>
ghostVars == <<lastCall, passedSinceNav, passedSinceClear>>

\* processVideo returns true at line 132 or 150: the close click, then the caller's .then
Finish(c) ==
    /\ nClicks' = nClicks + Len(closeClick(calls[c].trace)) - Len(calls[c].trace)
    /\ calls' = [calls EXCEPT ![c].pc = "done",
                              ![c].trace = closeClick(@),
                              ![c].result = "complete"]
    /\ connected' = connectedAfterThen(calls[c].origin, TRUE)
    /\ pageObserver' = pageObserverAfterThen(calls[c].origin, TRUE)

\* lines 127-134: the awaited audio-track search has returned
AudioTrackSearchReturns(c) ==
    /\ calls[c].pc = "find1"
    /\ \E kind \in audioTrackMenuItem :
         IF kind = "clicked"
         THEN /\ calls' = [calls EXCEPT ![c].pc = "find2", ![c].trace = Append(@, "I")]
              /\ nClicks' = nClicks + 1
              /\ UNCHANGED <<connected, pageObserver>>
         ELSE Finish(c)
    /\ UNCHANGED <<pageVars, ghostVars, processed, nObservers, runTimers, checkTimers, fm>>

\* lines 137-147: the awaited original-language search has returned
OriginalSearchReturns(c) ==
    /\ calls[c].pc = "find2"
    /\ \E kind \in originalAudioResult :
         IF kind = "clicked"
         THEN /\ calls' = [calls EXCEPT ![c].pc = "settle", ![c].trace = Append(@, "I")]
              /\ nClicks' = nClicks + 1
         ELSE /\ calls' = [calls EXCEPT ![c].pc = "settle"]
              /\ UNCHANGED nClicks
    /\ UNCHANGED <<pageVars, ghostVars, processed, connected, pageObserver, nObservers,
                   runTimers, checkTimers, fm>>

\* lines 147-150: the 500 ms settle delay is over
Settle(c) ==
    /\ calls[c].pc = "settle"
    /\ Finish(c)
    /\ UNCHANGED <<pageVars, ghostVars, processed, nObservers, runTimers, checkTimers, fm>>

\* (variant of connectedAfterCatch with the commented-out lines 188-189 enabled)
connectedAfterCatchDisconnects(origin) == connected \ {origin}

\* lines 185-190 and 213-215: the .catch of either caller only logs
connectedAfterCatch(origin) == connected
pageObserverAfterCatch(origin) == pageObserver

\* A DOM call of processVideo throws when the call resumes from one of its
\* awaits (lines 127, 137, 147): the promise is rejected, the rest of the click
\* sequence does not run, and the caller's .catch runs.
ProcessingThrows(c) ==
    /\ calls[c].pc \in {"find1", "find2", "settle"}
    /\ calls' = [calls EXCEPT ![c].pc = "failed", ![c].result = "rejected"]
    /\ connected' = connectedAfterCatch(calls[c].origin)
    /\ pageObserver' = pageObserverAfterCatch(calls[c].origin)
    /\ UNCHANGED <<pageVars, ghostVars, processed, nClicks, nObservers, runTimers,
                   checkTimers, fm>>

----------------------------------------------------------------------------
(* run, its observer callback and delayed check; the navigation listener *)

\* lines 159-220
run ==
    /\ runTimers > 0
    /\ runTimers' = runTimers - 1
    /\ IF pathname # "/watch"
       THEN UNCHANGED <<pageObserver, connected, nObservers, checkTimers>>
       ELSE /\ nObservers < MaxObs
            /\ nObservers' = nObservers + 1
            /\ connected' = (connected \ {pageObserver}) \cup {nObservers + 1}
            /\ pageObserver' = nObservers + 1
            /\ checkTimers' = checkTimers \cup {nObservers + 1}
    /\ UNCHANGED <<pageVars, ghostVars, processed, calls, nClicks, fm>>

\* lines 172-192: a mutation batch is delivered to a connected observer
MutationCallback(obs) ==
    /\ obs \in connected
    /\ settingsButton # 0
    /\ processVideo(obs, obs)
    /\ UNCHANGED <<pageVars, nObservers, runTimers, checkTimers, fm>>

\* (variant of DelayedCheck whose timer fires without calling processVideo)
DelayedCheckOnlyLogs(gen) ==
    /\ gen \in checkTimers
    /\ checkTimers' = checkTimers \ {gen}
    /\ UNCHANGED <<processed, nClicks, calls, connected, pageObserver, ghostVars>>
    /\ UNCHANGED <<pageVars, nObservers, runTimers, fm>>

\* lines 201-219: the timer armed by the run() that installed observer gen fires
DelayedCheck(gen) ==
    /\ gen \in checkTimers
    /\ checkTimers' = checkTimers \ {gen}
    /\ IF settingsButton # 0
       THEN processVideo(0, gen)
       ELSE UNCHANGED <<processed, nClicks, calls, connected, pageObserver, ghostVars>>
    /\ UNCHANGED <<pageVars, nObservers, runTimers, fm>>

\* lines 224-233: yt-navigate-finish, the page now showing path p
NavigateFinish(p) ==
    /\ runTimers < MaxTimers
    /\ pathname' = p
    /\ processed' = IF settingsButton # 0 /\ alreadyProcessed(settingsButton)
                    THEN clearProcessed(settingsButton) ELSE processed
    /\ runTimers' = runTimers + 1
    /\ passedSinceNav' = {}
    /\ passedSinceClear' = {}
    /\ UNCHANGED <<settingsButton, nButtons, adClasses, pageObserver, connected,
                   nObservers, checkTimers, calls, nClicks, lastCall, fm>>

----------------------------------------------------------------------------
(* The page, outside the script's control *)

\* the player (re)creates its settings button: a new element, without the flag
PageCreatesButton ==
    /\ nButtons < MaxBtn
    /\ nButtons' = nButtons + 1
    /\ settingsButton' = nButtons + 1
    /\ UNCHANGED <<pathname, adClasses, processed, pageObserver, connected, nObservers,
                   runTimers, checkTimers, calls, nClicks, ghostVars, fm>>

PageRemovesButton ==
    /\ settingsButton # 0
    /\ settingsButton' = 0
    /\ UNCHANGED <<pathname, nButtons, adClasses, processed, pageObserver, connected,
                   nObservers, runTimers, checkTimers, calls, nClicks, ghostVars, fm>>

AdStarts(cls) ==
    /\ adClasses = {}
    /\ adClasses' = adClasses \cup {cls}
    /\ UNCHANGED <<pathname, settingsButton, nButtons, processed, pageObserver, connected,
                   nObservers, runTimers, checkTimers, calls, nClicks, ghostVars, fm>>

AdEnds ==
    /\ adClasses # {}
    /\ adClasses' = {}
    /\ UNCHANGED <<pathname, settingsButton, nButtons, processed, pageObserver, connected,
                   nObservers, runTimers, checkTimers, calls, nClicks, ghostVars, fm>>

----------------------------------------------------------------------------
(* Specifications *)

Paths == {"/watch", "/feed"}

\* lines 222-236: the script has loaded and armed its first setTimeout(run, 1800)
Init ==
    /\ pathname \in Paths
    /\ settingsButton = 0
    /\ nButtons = 0
    /\ processed = {}
    /\ adClasses = {}
    /\ pageObserver = 0
    /\ connected = {}
    /\ nObservers = 0
    /\ runTimers = 1
    /\ checkTimers = {}
    /\ calls = <<>>
    /\ nClicks = 0
    /\ lastCall = NoCall
    /\ passedSinceNav = {}
    /\ passedSinceClear = {}
    /\ fm = FmUnused

Step ==
    \/ \E c \in DOMAIN calls : AudioTrackSearchReturns(c)
    \/ \E c \in DOMAIN calls : OriginalSearchReturns(c)
    \/ \E c \in DOMAIN calls : Settle(c)
    \/ run
    \/ \E gen \in checkTimers : DelayedCheck(gen)

Next ==
    \/ Step
    \/ \E obs \in connected : MutationCallback(obs)
    \/ \E p \in Paths : NavigateFinish(p)
    \/ PageCreatesButton
    \/ PageRemovesButton
    \/ \E cls \in AdClassNames : AdStarts(cls)
    \/ AdEnds

Spec == Init /\ [][Next]_vars

\* The matcher alone: any of the keyword-set inputs, the menu changing between polls
MatcherInit ==
    /\ pathname = "/watch"
    /\ settingsButton = 0
    /\ nButtons = 0
    /\ processed = {}
    /\ adClasses = {}
    /\ pageObserver = 0
    /\ connected = {}
    /\ nObservers = 0
    /\ runTimers = 1
    /\ checkTimers = {}
    /\ calls = <<>>
    /\ nClicks = 0
    /\ lastCall = NoCall
    /\ passedSinceNav = {}
    /\ passedSinceClear = {}
    /\ \E ks \in KeywordSetInputs : fm = FmStart(ks)

MatcherNext == FmPoll

MatcherSpec == MatcherInit /\ [][MatcherNext]_vars

\* The script's own steps are timers and awaited promises, which the event loop
\* always gets to; the page owes the script nothing (no mutation, no navigation).
Fairness ==
    /\ WF_vars(run)
    /\ WF_vars(\E gen \in checkTimers : DelayedCheck(gen))
    /\ WF_vars(\E c \in DOMAIN calls : AudioTrackSearchReturns(c))
    /\ WF_vars(\E c \in DOMAIN calls : OriginalSearchReturns(c))
    /\ WF_vars(\E c \in DOMAIN calls : Settle(c))

FairSpec == Init /\ [][Next]_vars /\ Fairness

\* The lifecycle on a page that stands still once the script has armed: the
\* page changes (control, ad state, navigation) only while no delayed check is
\* pending and no click sequence has started, and no mutation batch is ever
\* delivered.
PageMayChange == checkTimers = {} /\ calls = <<>>

QuietNext ==
    \/ Step
    \/ PageMayChange /\ \E p \in Paths : NavigateFinish(p)
    \/ PageMayChange /\ PageCreatesButton
    \/ PageMayChange /\ PageRemovesButton
    \/ PageMayChange /\ \E cls \in AdClassNames : AdStarts(cls)
    \/ PageMayChange /\ AdEnds

QuietSpec == Init /\ [][QuietNext]_vars /\ Fairness

\* The lifecycle with DOM calls that may throw inside processVideo
FaultNext ==
    \/ Next
    \/ \E c \in DOMAIN calls : ProcessingThrows(c)

FaultSpec == Init /\ [][FaultNext]_vars

----------------------------------------------------------------------------
(* Vocabulary of the claims *)

Buttons == 1..MaxBtn
Observers == 1..MaxObs

\* two characters that are the same letter, whatever their case
SameLetter(a, b) ==
    \/ a = b
    \/ \E i \in DOMAIN UpperAlpha : {a, b} = {UpperAlpha[i], LowerAlpha[i]}

\* k occurs in s as a substring, compared case-insensitively
ContainsCI(s, k) ==
    \E off \in 0..(Len(s) - Len(k)) : \A j \in 1..Len(k) : SameLetter(s[off + j], k[j])

\* the item has a label that contains every keyword of the set
ItemMatchesSet(item, keywords) ==
    item.hasLabel /\ \A i \in DOMAIN keywords : ContainsCI(item.label, keywords[i])

ItemMatches(item, keywordSets) ==
    \E k \in DOMAIN keywordSets : ItemMatchesSet(item, keywordSets[k])

\* the earliest keyword set that any item of the menu matches (0 = none)
EarliestMatchedSet(menuItems, keywordSets) ==
    LET hit == {k \in DOMAIN keywordSets :
                   \E i \in DOMAIN menuItems : ItemMatchesSet(menuItems[i], keywordSets[k])}
    IN  IF hit = {} THEN 0 ELSE CHOOSE k \in hit : \A j \in hit : k <= j

HasOriginalMarker(keywords) ==
    \E i \in DOMAIN keywords : keywords[i] \in {kwParenOriginal, kwOriginal}

SettingsClicks(trace) == Cardinality({i \in DOMAIN trace : trace[i] = "S"})

Called == lastCall.result # "none"

----------------------------------------------------------------------------
(* Claims *)

\* C1 (as stated): on one settings control, with no navigation event in
\* between, only the first call that passes the precondition checks performs
\* clicks: a later call never starts the click sequence and issues no click.
C1_OnlyFirstPassingCallClicks ==
    lastCall.priorPassNav => (lastCall.result # "pending" /\ lastCall.clicks = 0)

\* C1 (amended): with neither a navigation event nor an ad-state call that
\* cleared the marker in between, only the first call that passes the
\* precondition checks performs clicks: every later call finds the marker set
\* and issues no click, and reports "already processed" unless it is made in
\* an ad state.
C1_OnlyFirstPassingCallClicksUnlessCleared ==
    /\ \A b \in passedSinceClear : b \in processed
    /\ lastCall.priorPassClear =>
          /\ lastCall.markedBefore
          /\ lastCall.clicks = 0
          /\ ~lastCall.ad => lastCall.result = "complete"

C1_Witness ==
    /\ lastCall.priorPassClear /\ ~lastCall.ad /\ lastCall.result = "complete"
    /\ \E c \in DOMAIN calls : calls[c].pc = "done"

\* C2: a call made in an ad state with the settings control present returns
\* defer, issues no click and leaves the marker unset, whether or not the
\* marker was set before.
C2_AdStateDefers ==
    lastCall.ad =>
        (lastCall.result = "defer" /\ lastCall.clicks = 0 /\ ~lastCall.markedAfter)

C2_Witness ==
    lastCall.ad /\ lastCall.markedBefore /\ lastCall.result = "defer" /\ ~lastCall.markedAfter

\* C3: at most one observer installed by the script is connected at any time.
C3_AtMostOneObserverConnected == Cardinality(connected) <= 1

\* C4: an invocation of findAndClickMenuItem polls at most 5 times, attempt 0
\* through 4; while it waits, its polls so far equal its attempt number; after
\* the fifth poll it has returned, with "not found" if no item of that poll matched.
C4_AtMostFivePolls ==
    /\ fm.polls <= 5 /\ fm.attempt <= 4
    /\ fm.pc = "waiting" => (fm.polls = fm.attempt /\ fm.polls <= 4)
    /\ fm.polls = 5 => fm.pc = "returned"
    /\ (fm.polls = 5 /\ \A i \in DOMAIN fm.menuItems : ~ItemMatches(fm.menuItems[i], fm.keywordSets))
          => fm.kind = "null"

C4_Witness == fm.polls = 5 /\ fm.pc = "returned" /\ fm.kind = "null"

\* C5: the item findAndClickMenuItem clicks matches the earliest keyword set
\* that any item of the polled menu matches.
C5_FirstSetInPriorityOrderWins ==
    fm.kind = "clicked" =>
        ItemMatchesSet(fm.menuItems[fm.item],
                       fm.keywordSets[EarliestMatchedSet(fm.menuItems, fm.keywordSets)])

\* C6: a poll treats an item as a match exactly when its label contains, case
\* ignored, every keyword of some set: the item it settles on matches, a menu
\* with a matching item never yields a retry or "not found", and for the sets
\* [["audio track"],["audio"]] and the labels Quality, Audio track, Speed the
\* item clicked is "Audio track".
C6_MatchIsCaseInsensitiveContainment ==
    /\ fm.item # 0 => ItemMatches(fm.menuItems[fm.item], fm.keywordSets)
    /\ fm.kind = "clicked" => fm.item # 0
    /\ (fm.polls > 0 /\ \E i \in DOMAIN fm.menuItems : ItemMatches(fm.menuItems[i], fm.keywordSets))
          => fm.kind \in {"clicked", "already_selected"}
    /\ (/\ fm.polls > 0
        /\ fm.keywordSets = audioTrackMenuItemKeywords
        /\ fm.menuItems = <<Item(lblQuality, "none"), Item(lblAudioTrack, "none"),
                            Item(lblSpeed, "none")>>)
          => (fm.kind = "clicked" /\ fm.menuItems[fm.item].label = lblAudioTrack)

C6_Witness ==
    /\ fm.keywordSets = audioTrackMenuItemKeywords
    /\ fm.menuItems = <<Item(lblQuality, "none"), Item(lblAudioTrack, "none"),
                        Item(lblSpeed, "none")>>
    /\ fm.kind = "clicked" /\ fm.item = 2

\* C7: when the matched item is checked ("true") and the keyword set it matched
\* holds an "original" marker, the invocation returns "already selected" and
\* has issued no click, retries included.
C7_CheckedOriginalIsNotClicked ==
    (/\ fm.item # 0
     /\ fm.menuItems[fm.item].checked = "true"
     /\ HasOriginalMarker(fm.keywordSets[fm.set]))
       => (fm.pc = "returned" /\ fm.kind = "already_selected" /\ fm.clicks = 0)

C7_Witness ==
    /\ fm.kind = "already_selected" /\ fm.polls >= 2 /\ fm.clicks = 0
    /\ fm.keywordSets = originalAudioKeywords
    /\ fm.menuItems[fm.item].label = lblEnglishOriginal

\* C8 (as stated): a call that fails a precondition (ad state, or control
\* already processed) returns defer and sets no marker, and only calls that
\* passed every precondition return complete.
C8_EveryPreconditionFailureDefers ==
    (Called /\ (lastCall.ad \/ lastCall.markedBefore)) => lastCall.result = "defer"

\* C8 (amended): a call in an ad state returns defer and leaves the marker
\* unset; a call outside an ad state on an already-processed control returns
\* complete at once, with no click and the marker as it was; any other call
\* sets the marker and starts the click sequence, and returns complete when
\* the sequence ends.
C8_PreconditionOutcomes ==
    /\ (Called /\ lastCall.ad) => (lastCall.result = "defer" /\ ~lastCall.markedAfter)
    /\ (Called /\ ~lastCall.ad /\ lastCall.markedBefore) =>
          (lastCall.result = "complete" /\ lastCall.clicks = 0 /\ lastCall.markedAfter)
    /\ (Called /\ ~lastCall.ad /\ ~lastCall.markedBefore) =>
          (lastCall.result = "pending" /\ lastCall.clicks = 1 /\ lastCall.markedAfter)
    /\ \A c \in DOMAIN calls : calls[c].result = "complete" <=> calls[c].pc = "done"

\* a second call returned complete while the first call's click sequence is still running
C8_Witness ==
    /\ Called /\ ~lastCall.ad /\ lastCall.markedBefore /\ lastCall.markedAfter
    /\ lastCall.result = "complete" /\ lastCall.clicks = 0
    /\ \E c \in DOMAIN calls : calls[c].pc # "done"

\* C9: once an attempt started by the delayed one-shot check of a page instance
\* has reported completion, the observer installed for that page instance is
\* eventually disconnected.
C9_ObserverDisconnectedAfterCompletion ==
    \A g \in Observers :
        (\E c \in DOMAIN calls : calls[c].pc = "done" /\ calls[c].origin = 0 /\ calls[c].gen = g)
            ~> (g \notin connected)

\* C10: a call that passed the precondition checks opens the settings menu
\* before anything else, and, however its two searches end, returns complete
\* having clicked the settings control exactly twice, the second time after
\* every menu-item click.
C10_OpenThenCloseExactlyOnce ==
    \A c \in DOMAIN calls :
        LET t == calls[c].trace IN
        /\ Len(t) >= 1 /\ t[1] = "S"
        /\ calls[c].pc # "done" => (SettingsClicks(t) = 1 /\ calls[c].result = "pending")
        /\ calls[c].pc = "done" =>
              /\ calls[c].result = "complete"
              /\ SettingsClicks(t) = 2
              /\ t[Len(t)] = "S"
              /\ Len(t) <= 4

C10_Witness ==
    /\ \E c \in DOMAIN calls : calls[c].pc = "done" /\ calls[c].trace = <<"S", "S">>
    /\ \E c \in DOMAIN calls : calls[c].pc = "done" /\ calls[c].trace = <<"S", "I", "S">>

\* C11 (as stated): an invocation that exhausts its retries without a match
\* logs the available menu labels before it returns "not found", whichever
\* keyword sets it was called with.
C11_NotFoundAlwaysLogsLabels ==
    (fm.pc = "returned" /\ fm.kind = "null") => fm.dump

\* C18: an invocation issues at most one click over all of its polls; it has
\* returned the clicked item exactly when it has issued one click, and while
\* it waits, or when it returns "already selected" or "not found", it has
\* issued none.
C18_AtMostOneClickPerInvocation ==
    /\ fm.clicks <= 1
    /\ fm.clicks = 1 <=> (fm.pc = "returned" /\ fm.kind = "clicked" /\ fm.item # 0)
    /\ (fm.pc = "waiting" \/ fm.kind \in {"already_selected", "null"}) => fm.clicks = 0

\* the item is clicked at the fifth poll, after four polls that clicked nothing
C18_Witness ==
    fm.polls = 5 /\ fm.kind = "clicked" /\ fm.clicks = 1

\* C19: the delay waited before poll number k (k = 0..4) is 350 + 250 * k
\* milliseconds: every poll, the first included, follows a delay, and each
\* delay is longer than the one before.
C19_DelayBeforePoll ==
    /\ [](fm.polls > 0 => (fm.waited = 350 + 250 * (fm.polls - 1) /\ fm.waited >= 350))
    /\ [][fm'.polls = fm.polls + 1 /\ fm'.waited > fm.waited]_vars

C19_Witness == fm.polls = 5 /\ fm.waited = 1350

\* the click sequences on control b that have started and not yet returned
InFlight(b) == {c \in DOMAIN calls : calls[c].btn = b /\ calls[c].pc # "done"}

\* C13 (as stated): at most one click sequence is in flight on one settings
\* control at any time, whatever the interleaving.
C13_AtMostOneSequenceInFlightPerControl ==
    \A b \in Buttons : Cardinality(InFlight(b)) <= 1

\* C15 (as stated): the observer handle is null only when no observer
\* installed by the script is connected.
C15_NullHandleMeansNoObserverConnected ==
    pageObserver = 0 => connected = {}

\* C16 (as stated): once every pending re-arm has run and the page path is not
\* the watch-page path, no observer installed by the script is connected.
C16_NoObserverOffTheWatchPage ==
    (runTimers = 0 /\ pathname # "/watch") => connected = {}

\* C12: a navigation event leaves the settings control of the page unmarked;
\* a call outside an ad state on a control that no call has passed on since the
\* last navigation event finds no marker, sets it and starts the click
\* sequence with the opening click; the marker appears on a control only in a
\* step that starts a click sequence on it, and disappears only in a
\* navigation event or in a call made in an ad state.
C12_NavigationClearsMarker ==
    /\ [](Called /\ ~lastCall.ad /\ ~lastCall.priorPassNav =>
            /\ ~lastCall.markedBefore /\ lastCall.markedAfter
            /\ lastCall.result = "pending" /\ lastCall.clicks = 1)
    /\ [][/\ runTimers' = runTimers + 1 => settingsButton \notin processed'
          /\ \A b \in Buttons :
               /\ (b \notin processed /\ b \in processed') =>
                     /\ Len(calls') = Len(calls) + 1
                     /\ calls'[Len(calls')].btn = b
                     /\ calls'[Len(calls')].pc = "find1"
                     /\ calls'[Len(calls')].trace = <<"S">>
               /\ (b \in processed /\ b \notin processed') =>
                     \/ runTimers' = runTimers + 1
                     \/ /\ settingsButton = b /\ adClasses # {}
                        /\ calls' = calls /\ nClicks' = nClicks
                        /\ lastCall'.result = "defer"]_vars

\* the control was processed to the end, a navigation event came, and the next
\* call on the same control started the click sequence again
C12_Witness ==
    /\ Len(calls) = 2 /\ calls[1].pc = "done" /\ calls[2].pc = "find1"
    /\ calls[1].btn = calls[2].btn
    /\ lastCall.result = "pending" /\ ~lastCall.ad /\ ~lastCall.priorPassNav
    /\ adClasses = {}

\* C17: when a processVideo call started by the observer callback or by the
\* delayed check fails with an exception, the step that handles the failure
\* leaves every observer as connected as it was and the observer handle as it
\* was; while the observer that started the failed call is still connected and
\* the control is present, a mutation batch still calls processVideo (a call
\* that starts a click sequence needs a free call record, MaxSeq).
C17_FailureKeepsObserver ==
    /\ [][(\E c \in DOMAIN calls : calls[c].pc # "failed" /\ calls'[c].pc = "failed")
             => (connected' = connected /\ pageObserver' = pageObserver)]_vars
    /\ [](\A c \in DOMAIN calls :
             (/\ calls[c].pc = "failed" /\ calls[c].origin \in connected
              /\ settingsButton # 0
              /\ (settingsButton \in processed \/ adClasses # {} \/ Len(calls) < MaxSeq))
                => ENABLED MutationCallback(calls[c].origin))

\* the attempt an observer started has failed, and that observer is still
\* connected and still the one the handle names
C17_Witness ==
    \E c \in DOMAIN calls :
        /\ calls[c].pc = "failed" /\ calls[c].origin # 0
        /\ calls[c].origin \in connected /\ pageObserver = calls[c].origin
        /\ settingsButton = calls[c].btn

\* C14: on a page that stands still and delivers no mutation batch, if the
\* control is present, unmarked and no ad is showing when an observer is armed
\* on the watch page, then eventually the delayed check of that observer has
\* fired and one click sequence, started by a delayed check, has run to its
\* close click; no second click sequence is ever started.
C14_DelayedCheckCoversStaticPage ==
    /\ \A g \in Observers :
          (/\ g \in connected /\ g \in checkTimers /\ pathname = "/watch"
           /\ settingsButton # 0 /\ adClasses = {} /\ settingsButton \notin processed)
             ~> (/\ g \notin checkTimers
                 /\ Len(calls) = 1 /\ calls[1].origin = 0 /\ calls[1].pc = "done"
                 /\ calls[1].btn = settingsButton
                 /\ SettingsClicks(calls[1].trace) = 2)
    /\ [](Len(calls) <= 1)

\* the delayed check of observer 1 ran the whole sequence: open, Audio track,
\* the original track, close
C14_Witness ==
    /\ 1 \in connected /\ 1 \notin checkTimers /\ Len(calls) = 1
    /\ calls[1].origin = 0 /\ calls[1].gen = 1 /\ calls[1].pc = "done"
    /\ calls[1].trace = <<"S", "I", "I", "S">>

====
